---- MODULE Spec2Model ----
(***************************************************************************)
(* p5/opengl/gloo.py: the object-oriented wrappers VertexBuffer, Texture,  *)
(* FrameBuffer and DummyFrameBuffer over a handle-based graphics context.  *)
(*                                                                         *)
(* The graphics context is the record  gl : the bind-slots, the names in   *)
(* use, the device-side stores, and the list of commands the last          *)
(* operation issued.  Every method of the source is an operator that takes *)
(* a context and returns the context after the method's gl.* calls, in the *)
(* order the source makes them; an action is one call of a method by the   *)
(* program that uses the module.                                           *)
(*                                                                         *)
(* The context does what the commands are documented to do to the slots    *)
(* and stores: a command acts on the name bound to its target, a released  *)
(* name may be handed out again, and no command reports an error.          *)
(***************************************************************************)
EXTENDS Integers, Sequences, FiniteSets, TLC

VARIABLES
    gl,        \* the graphics context (pyglet.gl), see InitContext
    vbos,      \* the VertexBuffer objects constructed so far, in order
    textures,  \* the Texture objects constructed so far, in order
    fbos,      \* the FrameBuffer objects constructed so far, in order
    dummies,   \* how many DummyFrameBuffer objects were constructed so far
    names,     \* the names bound in the module's global namespace
    last,      \* the last call the program made, and how it ended
    deleted,   \* history: the objects delete() has been called on
    finalized, \* the FrameBuffer objects whose __del__ has run
    released   \* history: per FrameBuffer object, the release commands issued

vars ==
    <<gl, vbos, textures, fbos, dummies, names, last, deleted, finalized, released>>

(***************************************************************************)
(* Bounds of the model.                                                    *)
(***************************************************************************)
NumBuffers      == 2   \* VertexBuffer objects the program constructs
NumTextures     == 2   \* Texture objects the program constructs
NumFrameBuffers == 2   \* FrameBuffer objects the program constructs
MaxName         == 2   \* the driver hands out the names 1..MaxName per kind
MaxLen          == 1   \* longest sequence given to a buffer
MaxObjects      == 2   \* objects of all classes in a program that mixes them
MaxOfClass      == 1   \* objects of one class in a program that mixes them

(***************************************************************************)
(* Python's None and an optional value: <<>> is None, <<x>> is x.          *)
(***************************************************************************)
None      == <<>>
Some(x)   == <<x>>
IsNone(o) == o = <<>>
Get(o)    == o[1]

(***************************************************************************)
(* The three module-level tables.                                          *)
(***************************************************************************)
_buffer_type_map ==
    [data |-> "GL_ARRAY_BUFFER", elem |-> "GL_ELEMENT_ARRAY_BUFFER"]

_dtype_map ==
    [float |-> [ctype |-> "GLfloat", const |-> "GL_FLOAT"],
     uint  |-> [ctype |-> "GLuint",  const |-> "GL_UNSIGNED_INT"]]

_mode_map ==
    [POINTS       |-> "GL_POINTS",
     LINE_STRIP   |-> "GL_LINE_STRIP",
     LINE_LOOP    |-> "GL_LINE_LOOP",
     TRIANGLES    |-> "GL_TRIANGLES",
     TRIANGLE_FAN |-> "GL_TRIANGLE_FAN"]

\* The names the module binds at import time (its import statements, its
\* three tables and its classes).  Gluint and pointer are not among them.
ModuleGlobals ==
    {"ABCMeta", "abstractmethod", "ct", "gl",
     "_buffer_type_map", "_dtype_map", "_mode_map",
     "GLObject", "VertexBuffer", "Texture", "DummyFrameBuffer", "FrameBuffer"}

(***************************************************************************)
(* Inputs.                                                                 *)
(***************************************************************************)
\* Elements of the sequences given to a buffer: Python ints.  -1 is not a
\* uint32 and 16777217 = 2^24 + 1 is not a float32; each is exact in the
\* other element type.
Elems == {-1, 16777217}

RECURSIVE SeqsUpTo(_)
SeqsUpTo(n) ==
    IF n = 0 THEN {<<>>}
    ELSE LET shorter == SeqsUpTo(n - 1)
         IN  shorter \cup {Append(s, e) : s \in {t \in shorter : Len(t) = n - 1},
                                          e \in Elems}

BufferValues == SeqsUpTo(MaxLen)

\* draw's argument: the five keys of _mode_map and one string that is no key.
DrawModes == DOMAIN _mode_map \cup {"QUADS"}

\* Pixel buffers given to a texture, and the sizes textures are made with.
PixelBuffers == {"P1", "P2"}
TextureSizes == {<<1, 1>>, <<2, 1>>}

\* What glCheckFramebufferStatusEXT answers.
FramebufferStatuses ==
    {"GL_FRAMEBUFFER_COMPLETE_EXT", "GL_FRAMEBUFFER_UNSUPPORTED_EXT"}

Targets ==
    {"GL_ARRAY_BUFFER", "GL_ELEMENT_ARRAY_BUFFER", "GL_TEXTURE_2D",
     "GL_FRAMEBUFFER_EXT"}

Names0 == 0..MaxName

(***************************************************************************)
(* ctypes conversion of a Python int to the buffer's element type.         *)
(* c_uint keeps the low 32 bits; the value is held as two 16-bit halves.   *)
(* c_float rounds to 24 significant bits, ties to even.                    *)
(***************************************************************************)
Half == 256 * 256

RECURSIVE Log2(_)
Log2(x) == IF x < 2 THEN 0 ELSE 1 + Log2(x \div 2)

RECURSIVE Pow2(_)
Pow2(k) == IF k = 0 THEN 1 ELSE 2 * Pow2(k - 1)

Abs(x) == IF x < 0 THEN -x ELSE x

ToGLuint(x) == [ctype |-> "GLuint", hi |-> (x \div Half) % Half, lo |-> x % Half,
                v |-> 0]

ToGLfloat(x) ==
    LET a   == Abs(x)
        e   == Log2(a)
        ulp == IF e > 23 THEN Pow2(e - 23) ELSE 1
        q   == a \div ulp
        r   == a % ulp
        up  == 2 * r > ulp \/ (2 * r = ulp /\ q % 2 = 1)
        m   == (IF up THEN q + 1 ELSE q) * ulp
    IN  [ctype |-> "GLfloat", hi |-> 0, lo |-> 0,
         v |-> IF x < 0 THEN -m ELSE m]

ToCType(ctype, x) == IF ctype = "GLuint" THEN ToGLuint(x) ELSE ToGLfloat(x)

\* (self._dtype * len(value))(*value)
TypedArray(ctype, value) == [i \in 1..Len(value) |-> ToCType(ctype, value[i])]

\* ct.sizeof of such an array: four bytes an element for both element types.
SizeOf(typed) == 4 * Len(typed)

\* Whether the typed element e holds exactly the Python int x.
SameNumber(x, e) ==
    IF e.ctype = "GLuint"
    THEN x >= 0 /\ x \div Half = e.hi /\ x % Half = e.lo
    ELSE x = e.v

(***************************************************************************)
(* The graphics context.                                                   *)
(***************************************************************************)
DefaultTexParameters ==
    [GL_TEXTURE_WRAP_S     |-> "GL_REPEAT",
     GL_TEXTURE_WRAP_T     |-> "GL_REPEAT",
     GL_TEXTURE_MIN_FILTER |-> "GL_NEAREST_MIPMAP_LINEAR",
     GL_TEXTURE_MAG_FILTER |-> "GL_LINEAR"]

InitContext ==
    [bound        |-> [t \in Targets |-> 0],
     buffers      |-> {},
     textures     |-> {},
     framebuffers |-> {},
     store        |-> [n \in Names0 |-> <<>>],
     image        |-> [n \in Names0 |-> None],
     params       |-> [n \in Names0 |-> DefaultTexParameters],
     attachments  |-> [n \in Names0 |-> {}],
     calls        |-> <<>>]

\* A command as the context sees it: its name, the name bound to its target
\* when it is issued, and its arguments.
Call(c, cmd, target, args) ==
    [c EXCEPT !.calls = Append(@, [cmd |-> cmd, target |-> target,
                                  on |-> c.bound[target], args |-> args])]

\* glGenBuffers / glGenTextures / glGenFramebuffersEXT: the driver returns a
\* name that is not in use; which one is the driver's choice (n).
glGenBuffers(c, n) ==
    [Call(c, "glGenBuffers", "GL_ARRAY_BUFFER", [n |-> n])
        EXCEPT !.buffers = @ \cup {n}]

glGenTextures(c, n) ==
    [Call(c, "glGenTextures", "GL_TEXTURE_2D", [n |-> n])
        EXCEPT !.textures = @ \cup {n}]

glGenFramebuffersEXT(c, n) ==
    [Call(c, "glGenFramebuffersEXT", "GL_FRAMEBUFFER_EXT", [n |-> n])
        EXCEPT !.framebuffers = @ \cup {n}]

\* Binding a name puts it in the target's slot; binding a name that is not in
\* use brings an object of that name into existence.
glBindBuffer(c, target, n) ==
    [Call(c, "glBindBuffer", target, [n |-> n])
        EXCEPT !.bound[target] = n, !.buffers = @ \cup ({n} \ {0})]

glBindTexture(c, target, n) ==
    [Call(c, "glBindTexture", target, [n |-> n])
        EXCEPT !.bound[target] = n, !.textures = @ \cup ({n} \ {0})]

glBindFramebufferEXT(c, target, n) ==
    [Call(c, "glBindFramebufferEXT", target, [n |-> n])
        EXCEPT !.bound[target] = n, !.framebuffers = @ \cup ({n} \ {0})]

\* glBufferData replaces the whole data store of the buffer bound to target;
\* with no buffer bound it changes nothing.
glBufferData(c, target, size, data, usage) ==
    LET d == Call(c, "glBufferData", target,
                  [size |-> size, data |-> data, usage |-> usage])
    IN  IF c.bound[target] = 0 THEN d
        ELSE [d EXCEPT !.store[c.bound[target]] = data]

\* glDrawElements reads the buffer bound to GL_ELEMENT_ARRAY_BUFFER and
\* changes nothing the model holds.
glDrawElements(c, mode, count, type, indices) ==
    Call(c, "glDrawElements", "GL_ELEMENT_ARRAY_BUFFER",
         [mode |-> mode, count |-> count, type |-> type, indices |-> indices])

\* glDeleteBuffers / glDeleteTextures free the name and its store; a slot
\* that holds the name goes back to 0.  A name not in use is ignored.
glDeleteBuffers(c, n) ==
    LET d == Call(c, "glDeleteBuffers", "GL_ARRAY_BUFFER", [n |-> n])
    IN  IF n \notin c.buffers THEN d
        ELSE [d EXCEPT
                !.buffers = @ \ {n},
                !.store[n] = <<>>,
                !.bound = [t \in Targets |->
                             IF t \in {"GL_ARRAY_BUFFER", "GL_ELEMENT_ARRAY_BUFFER"}
                                /\ c.bound[t] = n
                             THEN 0 ELSE c.bound[t]]]


\* glTexImage2D replaces the whole image of the texture bound to target.
glTexImage2D(c, target, level, internalformat, width, height, border, format, type, pixels) ==
    [Call(c, "glTexImage2D", target,
          [level |-> level, internalformat |-> internalformat,
           width |-> width, height |-> height, border |-> border,
           format |-> format, type |-> type, pixels |-> pixels])
        EXCEPT !.image[c.bound[target]] =
                   Some([width |-> width, height |-> height, format |-> format,
                         type |-> type, pixels |-> pixels])]

\* glTexParameteri sets one parameter of the texture bound to target.
glTexParameteri(c, target, pname, param) ==
    [Call(c, "glTexParameteri", target, [pname |-> pname, param |-> param])
        EXCEPT !.params[c.bound[target]][pname] = param]

\* glDeleteTextures frees the name, its image and its parameters; the texture
\* slot goes back to 0 if it holds the name, and the framebuffer that is
\* bound loses the texture if it is attached to it.
glDeleteTextures(c, n) ==
    LET d == Call(c, "glDeleteTextures", "GL_TEXTURE_2D", [n |-> n])
        f == c.bound["GL_FRAMEBUFFER_EXT"]
    IN  IF n \notin c.textures THEN d
        ELSE [d EXCEPT
                !.textures = @ \ {n},
                !.image[n] = None,
                !.params[n] = DefaultTexParameters,
                !.bound["GL_TEXTURE_2D"] = IF @ = n THEN 0 ELSE @,
                !.attachments[f] = {a \in @ : a[2] # n}]

\* glFramebufferTexture2DEXT makes the texture the image of one attachment
\* point of the framebuffer bound to target, in place of what was attached
\* there; texture 0 detaches.  With no framebuffer bound it changes nothing.
glFramebufferTexture2DEXT(c, target, attachment, textarget, texture, level) ==
    LET d == Call(c, "glFramebufferTexture2DEXT", target,
                  [attachment |-> attachment, textarget |-> textarget,
                   texture |-> texture, level |-> level])
        f == c.bound[target]
    IN  IF f = 0 THEN d
        ELSE [d EXCEPT !.attachments[f] =
                  {a \in @ : a[1] # attachment}
                  \cup (IF texture = 0 THEN {} ELSE {<<attachment, texture>>})]

\* glCheckFramebufferStatusEXT: the answer is the driver's (status).
glCheckFramebufferStatusEXT(c, target, status) ==
    Call(c, "glCheckFramebufferStatusEXT", target, [status |-> status])

(***************************************************************************)
(* class VertexBuffer                                                      *)
(***************************************************************************)
\* The call the program makes: the context as the call finds it, with the
\* list of commands of the previous call dropped.
Entry == [gl EXCEPT !.calls = <<>>]

\* What is kept of the call: the class and method, the object it was made
\* on (its place in vbos, textures or fbos), its arguments, and the exception
\* it raised ("" when it returned) with the exception's message.
Called(cls, op, obj, args, r) ==
    [cls |-> cls, op |-> op, obj |-> obj, args |-> args, raised |-> r.raised,
     msg |-> r.msg]

\* How a method ends: Return, or Raise with the exception's class and message.
Return == [raised |-> "", msg |-> <<>>]
Raise(exception, msg) == [raised |-> exception, msg |-> msg]

\* (variant) activate that always binds to the array target.
VertexBuffer_activate_array(c, self) ==
    glBindBuffer(c, "GL_ARRAY_BUFFER", self._id)

\* (variant) activate that lets go of the buffer when it is already bound.
VertexBuffer_activate_toggle(c, self) ==
    glBindBuffer(c, self._type,
                 IF c.bound[self._type] = self._id THEN 0 ELSE self._id)

VertexBuffer_activate(c, self) == glBindBuffer(c, self._type, self._id)

\* (variant) deactivate that binds the buffer's own name again.
VertexBuffer_deactivate_self(c, self) == glBindBuffer(c, self._type, self._id)

VertexBuffer_deactivate(c, self) == glBindBuffer(c, self._type, 0)

\* (variant) deactivate_all that clears the array target only.
VertexBuffer_deactivate_all_array(c) == glBindBuffer(c, "GL_ARRAY_BUFFER", 0)

VertexBuffer_deactivate_all(c) ==
    glBindBuffer(glBindBuffer(c, "GL_ARRAY_BUFFER", 0),
                 "GL_ELEMENT_ARRAY_BUFFER", 0)

\* (variant) a setter that uploads and does not keep the value.
VertexBuffer_data_unkept(c, self, value) ==
    LET value_typed == TypedArray(self._dtype, value)
        c1 == VertexBuffer_activate(c, self)
        c2 == glBufferData(c1, self._type, SizeOf(value_typed), value_typed,
                           "GL_STATIC_DRAW")
        c3 == VertexBuffer_deactivate(c2, self)
    IN  [gl |-> c3, self |-> self, end |-> Return]

\* The data setter: the typed copy is uploaded between activate and
\* deactivate, and the value as given is kept as self._data.
VertexBuffer_data(c, self, value) ==
    LET value_typed == TypedArray(self._dtype, value)
        c1 == VertexBuffer_activate(c, self)
        c2 == glBufferData(c1, self._type, SizeOf(value_typed), value_typed,
                           "GL_STATIC_DRAW")
        c3 == VertexBuffer_deactivate(c2, self)
    IN  [gl |-> c3, self |-> [self EXCEPT !._data = Some(value)], end |-> Return]

VertexBuffer_init(c, dtype, data, buffer_type, n) ==
    LET self == [buffer_type  |-> buffer_type,
                 _type        |-> _buffer_type_map[buffer_type],
                 data_type    |-> dtype,
                 _dtype       |-> _dtype_map[dtype].ctype,
                 _dtype_const |-> _dtype_map[dtype].const,
                 _data        |-> None,
                 _id          |-> n]
        c1   == glGenBuffers(c, n)
    IN  IF IsNone(data) THEN [gl |-> c1, self |-> self, end |-> Return]
        ELSE VertexBuffer_data(c1, self, Get(data))

\* (variant) draw that does not look at the kind of the buffer.
VertexBuffer_draw_any(c, self, mode) ==
    IF mode \notin DOMAIN _mode_map
    THEN [gl |-> c, end |-> Raise("KeyError", <<mode>>)]
    ELSE LET c1 == VertexBuffer_activate(c, self)
         IN  IF IsNone(self._data)
             THEN [gl |-> c1, end |-> Raise("TypeError", <<>>)]
             ELSE LET c2 == glDrawElements(c1, _mode_map[mode],
                                           Len(Get(self._data)),
                                           self._dtype_const, 0)
                  IN  [gl |-> VertexBuffer_deactivate(c2, self), end |-> Return]

\* (variant) draw that issues the command without binding the buffer.
VertexBuffer_draw_unbound(c, self, mode) ==
    IF mode \notin DOMAIN _mode_map
    THEN [gl |-> c, end |-> Raise("KeyError", <<mode>>)]
    ELSE IF self.buffer_type = "elem"
         THEN IF IsNone(self._data)
              THEN [gl |-> c, end |-> Raise("TypeError", <<>>)]
              ELSE LET c2 == glDrawElements(c, _mode_map[mode],
                                            Len(Get(self._data)),
                                            self._dtype_const, 0)
                   IN  [gl |-> VertexBuffer_deactivate(c2, self), end |-> Return]
         ELSE [gl |-> c,
               end |-> Raise("ValueError", <<"cannot draw a data buffer.">>)]

\* (variant) draw that binds the buffer before it looks the mode up.
VertexBuffer_draw_bind_first(c, self, mode) ==
    LET c1 == VertexBuffer_activate(c, self)
    IN  IF mode \notin DOMAIN _mode_map
        THEN [gl |-> c1, end |-> Raise("KeyError", <<mode>>)]
        ELSE IF self.buffer_type = "elem"
             THEN IF IsNone(self._data)
                  THEN [gl |-> c1, end |-> Raise("TypeError", <<>>)]
                  ELSE LET c2 == glDrawElements(c1, _mode_map[mode],
                                                Len(Get(self._data)),
                                                self._dtype_const, 0)
                       IN  [gl |-> VertexBuffer_deactivate(c2, self),
                            end |-> Return]
             ELSE [gl |-> c1,
                   end |-> Raise("ValueError", <<"cannot draw a data buffer.">>)]

\* draw: the mode is looked up first (KeyError for a string that is no key),
\* the buffer is bound, and only then is the kind of the buffer looked at.
\* len(None) is a TypeError.  An exception leaves the method at once.
VertexBuffer_draw(c, self, mode) ==
    IF mode \notin DOMAIN _mode_map
    THEN [gl |-> c, end |-> Raise("KeyError", <<mode>>)]
    ELSE LET draw_mode == _mode_map[mode]
             c1 == VertexBuffer_activate(c, self)
         IN  IF self.buffer_type = "elem"
             THEN IF IsNone(self._data)
                  THEN [gl |-> c1, end |-> Raise("TypeError", <<>>)]
                  ELSE LET c2 == glDrawElements(c1, draw_mode, Len(Get(self._data)),
                                                self._dtype_const, 0)
                       IN  [gl |-> VertexBuffer_deactivate(c2, self), end |-> Return]
             ELSE [gl |-> c1,
                   end |-> Raise("ValueError", <<"cannot draw a data buffer.">>)]

VertexBuffer_delete(c, self) == glDeleteBuffers(c, self._id)

\* The program's calls on buffers.
NewVertexBuffer ==
    \E dtype \in DOMAIN _dtype_map, buffer_type \in DOMAIN _buffer_type_map,
       data \in {None} \cup {Some(s) : s \in BufferValues},
       n \in (1..MaxName) \ gl.buffers :
        /\ Len(vbos) < NumBuffers
        /\ LET r == VertexBuffer_init(Entry, dtype, data, buffer_type, n)
           IN  /\ gl' = r.gl
               /\ vbos' = Append(vbos, r.self)
               /\ last' = Called("VertexBuffer", "__init__", Len(vbos) + 1,
                                 <<dtype, data, buffer_type>>, r.end)
        /\ UNCHANGED <<textures, fbos, names, deleted, finalized, released, dummies>>

SetBufferData ==
    \E i \in DOMAIN vbos, value \in BufferValues :
        /\ LET r == VertexBuffer_data(Entry, vbos[i], value)
           IN  /\ gl' = r.gl
               /\ vbos' = [vbos EXCEPT ![i] = r.self]
               /\ last' = Called("VertexBuffer", "data", i, <<value>>, r.end)
        /\ UNCHANGED <<textures, fbos, names, deleted, finalized, released, dummies>>

ActivateBuffer ==
    \E i \in DOMAIN vbos :
        /\ gl' = VertexBuffer_activate(Entry, vbos[i])
        /\ last' = Called("VertexBuffer", "activate", i, <<>>, Return)
        /\ UNCHANGED <<vbos, textures, fbos, names, deleted, finalized, released, dummies>>

DeactivateBuffer ==
    \E i \in DOMAIN vbos :
        /\ gl' = VertexBuffer_deactivate(Entry, vbos[i])
        /\ last' = Called("VertexBuffer", "deactivate", i, <<>>, Return)
        /\ UNCHANGED <<vbos, textures, fbos, names, deleted, finalized, released, dummies>>

DeactivateAllBuffers ==
    /\ gl' = VertexBuffer_deactivate_all(Entry)
    /\ last' = Called("VertexBuffer", "deactivate_all", 0, <<>>, Return)
    /\ UNCHANGED <<vbos, textures, fbos, names, deleted, finalized, released, dummies>>

DrawBuffer ==
    \E i \in DOMAIN vbos, mode \in DrawModes :
        /\ LET r == VertexBuffer_draw(Entry, vbos[i], mode)
           IN  /\ gl' = r.gl
               /\ last' = Called("VertexBuffer", "draw", i, <<mode>>, r.end)
        /\ UNCHANGED <<vbos, textures, fbos, names, deleted, finalized, released, dummies>>

DeleteBuffer ==
    \E i \in DOMAIN vbos :
        /\ gl' = VertexBuffer_delete(Entry, vbos[i])
        /\ deleted' = deleted \cup {<<"VertexBuffer", i>>}
        /\ last' = Called("VertexBuffer", "delete", i, <<>>, Return)
        /\ UNCHANGED <<vbos, textures, fbos, names, finalized, released, dummies>>

\* Buffers, their data and their lifetime.
BufferNext ==
    \/ NewVertexBuffer
    \/ SetBufferData
    \/ ActivateBuffer
    \/ DeactivateBuffer
    \/ DeactivateAllBuffers
    \/ DeleteBuffer

\* Buffers and drawing.
DrawNext ==
    \/ NewVertexBuffer
    \/ SetBufferData
    \/ ActivateBuffer
    \/ DeactivateBuffer
    \/ DrawBuffer

(***************************************************************************)
(* class Texture                                                           *)
(***************************************************************************)
Texture_init(c, width, height, n) ==
    [gl   |-> glGenTextures(c, n),
     self |-> [_id |-> n, width |-> width, height |-> height, _data |-> None],
     end  |-> Return]

Texture_activate(c, self) == glBindTexture(c, "GL_TEXTURE_2D", self._id)

\* (variant) deactivate that lets go of the buffers as well.
Texture_deactivate_buffers(c, self) ==
    VertexBuffer_deactivate_all(glBindTexture(c, "GL_TEXTURE_2D", 0))

Texture_deactivate(c, self) == glBindTexture(c, "GL_TEXTURE_2D", 0)

\* (variant) the parameters without the minification filter.
Texture_set_texture_parameters_nomin(c, self) ==
    LET c1 == glTexParameteri(c, "GL_TEXTURE_2D", "GL_TEXTURE_WRAP_S",
                              "GL_CLAMP_TO_EDGE")
        c2 == glTexParameteri(c1, "GL_TEXTURE_2D", "GL_TEXTURE_WRAP_T",
                              "GL_CLAMP_TO_EDGE")
    IN  glTexParameteri(c2, "GL_TEXTURE_2D", "GL_TEXTURE_MAG_FILTER",
                        "GL_LINEAR")

Texture_set_texture_parameters(c, self) ==
    LET c1 == glTexParameteri(c, "GL_TEXTURE_2D", "GL_TEXTURE_WRAP_S",
                              "GL_CLAMP_TO_EDGE")
        c2 == glTexParameteri(c1, "GL_TEXTURE_2D", "GL_TEXTURE_WRAP_T",
                              "GL_CLAMP_TO_EDGE")
        c3 == glTexParameteri(c2, "GL_TEXTURE_2D", "GL_TEXTURE_MIN_FILTER",
                              "GL_LINEAR")
    IN  glTexParameteri(c3, "GL_TEXTURE_2D", "GL_TEXTURE_MAG_FILTER",
                        "GL_LINEAR")

Texture_data(c, self, value) ==
    LET c1 == Texture_activate(c, self)
        c2 == glTexImage2D(c1, "GL_TEXTURE_2D", 0, "GL_RGB", self.width,
                           self.height, 0, "GL_RGB", "GL_UNSIGNED_BYTE", value)
        c3 == Texture_set_texture_parameters(c2, self)
        c4 == Texture_deactivate(c3, self)
    IN  [gl |-> c4, self |-> [self EXCEPT !._data = Some(value)], end |-> Return]

Texture_delete(c, self) == glDeleteTextures(c, self._id)

NewTexture ==
    \E size \in TextureSizes, n \in (1..MaxName) \ gl.textures :
        /\ Len(textures) < NumTextures
        /\ LET r == Texture_init(Entry, size[1], size[2], n)
           IN  /\ gl' = r.gl
               /\ textures' = Append(textures, r.self)
               /\ last' = Called("Texture", "__init__", Len(textures) + 1,
                                 size, r.end)
        /\ UNCHANGED <<vbos, fbos, names, deleted, finalized, released, dummies>>

SetTextureData ==
    \E i \in DOMAIN textures, value \in PixelBuffers :
        /\ LET r == Texture_data(Entry, textures[i], value)
           IN  /\ gl' = r.gl
               /\ textures' = [textures EXCEPT ![i] = r.self]
               /\ last' = Called("Texture", "data", i, <<value>>, r.end)
        /\ UNCHANGED <<vbos, fbos, names, deleted, finalized, released, dummies>>

ActivateTexture ==
    \E i \in DOMAIN textures :
        /\ gl' = Texture_activate(Entry, textures[i])
        /\ last' = Called("Texture", "activate", i, <<>>, Return)
        /\ UNCHANGED <<vbos, textures, fbos, names, deleted, finalized, released, dummies>>

DeactivateTexture ==
    \E i \in DOMAIN textures :
        /\ gl' = Texture_deactivate(Entry, textures[i])
        /\ last' = Called("Texture", "deactivate", i, <<>>, Return)
        /\ UNCHANGED <<vbos, textures, fbos, names, deleted, finalized, released, dummies>>

DeleteTexture ==
    \E i \in DOMAIN textures :
        /\ gl' = Texture_delete(Entry, textures[i])
        /\ deleted' = deleted \cup {<<"Texture", i>>}
        /\ last' = Called("Texture", "delete", i, <<>>, Return)
        /\ UNCHANGED <<vbos, textures, fbos, names, finalized, released, dummies>>

(***************************************************************************)
(* class DummyFrameBuffer: every method takes any arguments and is `pass`. *)
(***************************************************************************)
\* The arguments a program gives to a method of a DummyFrameBuffer: none, a
\* texture, or something else.
DummyArguments ==
    {<<>>, <<0, 0>>} \cup {<<t>> : t \in DOMAIN textures}

\* (variant) an activate that selects the default render target.
DummyFrameBuffer_activate_default(c, self, args) ==
    glBindFramebufferEXT(c, "GL_FRAMEBUFFER_EXT", 0)

DummyFrameBuffer_init(c, args) == c
DummyFrameBuffer_activate(c, self, args) == c
DummyFrameBuffer_deactivate(c, self, args) == c
DummyFrameBuffer_attach_texture(c, self, args) == c
DummyFrameBuffer_delete(c, self, args) == c

NewDummyFrameBuffer ==
    \E args \in DummyArguments :
        /\ dummies < NumFrameBuffers
        /\ gl' = DummyFrameBuffer_init(Entry, args)
        /\ dummies' = dummies + 1
        /\ last' = Called("DummyFrameBuffer", "__init__", dummies + 1, args,
                          Return)
        /\ UNCHANGED <<vbos, textures, fbos, names, deleted, finalized, released>>

ActivateDummyFrameBuffer ==
    \E i \in 1..dummies, args \in DummyArguments :
        /\ gl' = DummyFrameBuffer_activate(Entry, i, args)
        /\ last' = Called("DummyFrameBuffer", "activate", i, args, Return)
        /\ UNCHANGED <<vbos, textures, fbos, dummies, names, deleted, finalized,
                       released>>

DeactivateDummyFrameBuffer ==
    \E i \in 1..dummies, args \in DummyArguments :
        /\ gl' = DummyFrameBuffer_deactivate(Entry, i, args)
        /\ last' = Called("DummyFrameBuffer", "deactivate", i, args, Return)
        /\ UNCHANGED <<vbos, textures, fbos, dummies, names, deleted, finalized,
                       released>>

AttachTextureDummyFrameBuffer ==
    \E i \in 1..dummies, args \in DummyArguments :
        /\ gl' = DummyFrameBuffer_attach_texture(Entry, i, args)
        /\ last' = Called("DummyFrameBuffer", "attach_texture", i, args, Return)
        /\ UNCHANGED <<vbos, textures, fbos, dummies, names, deleted, finalized,
                       released>>

DeleteDummyFrameBuffer ==
    \E i \in 1..dummies, args \in DummyArguments :
        /\ gl' = DummyFrameBuffer_delete(Entry, i, args)
        /\ last' = Called("DummyFrameBuffer", "delete", i, args, Return)
        /\ deleted' = deleted \cup {<<"DummyFrameBuffer", i>>}
        /\ UNCHANGED <<vbos, textures, fbos, dummies, names, finalized, released>>

\* A program that renders to textures and has a DummyFrameBuffer in the place
\* of the framebuffer.
DummyNext ==
    \/ NewTexture
    \/ ActivateTexture
    \/ DeactivateTexture
    \/ DeleteTexture
    \/ NewDummyFrameBuffer
    \/ ActivateDummyFrameBuffer
    \/ DeactivateDummyFrameBuffer
    \/ AttachTextureDummyFrameBuffer
    \/ DeleteDummyFrameBuffer

(***************************************************************************)
(* class FrameBuffer                                                       *)
(***************************************************************************)
FrameBuffer_check_completion_status(c, self, status) ==
    LET c1 == glCheckFramebufferStatusEXT(c, "GL_FRAMEBUFFER_EXT", status)
    IN  IF status # "GL_FRAMEBUFFER_COMPLETE_EXT"
        THEN [gl |-> c1,
              end |-> Raise("Exception",
                            <<"ERR ", status,
                              ": FrameBuffer could not be created.">>)]
        ELSE [gl |-> c1, end |-> Return]

\* __init__ looks up the names Gluint and pointer in the module's globals
\* (ns) when it runs; a name that is not bound is a NameError, raised before
\* the call it is part of.  An __init__ that raises gives the caller no
\* object (self is None); the object it was working on is dropped, and its
\* __del__ ends in an exception that is ignored (no _id to read, or
\* FrameBuffer_delete's), so the context is left as the raise found it.
FrameBuffer_init(c, ns, n, status) ==
    IF "Gluint" \notin ns
    THEN [gl |-> c, self |-> None, end |-> Raise("NameError", <<"Gluint">>)]
    ELSE IF "pointer" \notin ns
    THEN [gl |-> c, self |-> None, end |-> Raise("NameError", <<"pointer">>)]
    ELSE LET self == [_id |-> n]
             c1   == glGenFramebuffersEXT(c, n)
             r    == FrameBuffer_check_completion_status(c1, self, status)
         IN  [gl   |-> r.gl,
              self |-> IF r.end.raised = "" THEN Some(self) ELSE None,
              end  |-> r.end]

FrameBuffer_activate(c, self) ==
    glBindFramebufferEXT(c, "GL_FRAMEBUFFER_EXT", self._id)

FrameBuffer_deactivate(c, self) ==
    glBindFramebufferEXT(c, "GL_FRAMEBUFFER_EXT", self._id)

\* (variant) attach_texture that does not bind the framebuffer first.
FrameBuffer_attach_texture_unbound(c, self, texture) ==
    LET c2 == glFramebufferTexture2DEXT(c, "GL_FRAMEBUFFER_EXT",
                                        "GL_COLOR_ATTACHMENT0_EXT",
                                        "GL_TEXTURE_2D", texture._id, 0)
    IN  FrameBuffer_deactivate(c2, self)

FrameBuffer_attach_texture(c, self, texture) ==
    LET c1 == FrameBuffer_activate(c, self)
        c2 == glFramebufferTexture2DEXT(c1, "GL_FRAMEBUFFER_EXT",
                                        "GL_COLOR_ATTACHMENT0_EXT",
                                        "GL_TEXTURE_2D", texture._id, 0)
    IN  FrameBuffer_deactivate(c2, self)

\* delete gives glDeleteFramebuffersEXT one argument; the function takes two
\* (a count and the names), and the call is refused with a TypeError before
\* anything reaches the driver.
FrameBuffer_delete(c, self) ==
    [gl |-> c, end |-> Raise("TypeError", <<"glDeleteFramebuffersEXT">>)]

\* The name the driver would hand out: any free one, 0 when __init__ never
\* asks for one.
NewFrameBuffer ==
    \E status \in FramebufferStatuses,
       n \in IF {"Gluint", "pointer"} \subseteq names
             THEN (1..MaxName) \ gl.framebuffers ELSE {0} :
        /\ Len(fbos) < NumFrameBuffers
        /\ LET r == FrameBuffer_init(Entry, names, n, status)
           IN  /\ gl' = r.gl
               /\ fbos' = IF IsNone(r.self) THEN fbos
                          ELSE Append(fbos, Get(r.self))
               /\ last' = Called("FrameBuffer", "__init__",
                                 IF IsNone(r.self) THEN 0 ELSE Len(fbos) + 1,
                                 <<status>>, r.end)
        /\ UNCHANGED <<vbos, textures, names, deleted, finalized, released, dummies>>

ActivateFrameBuffer ==
    \E i \in DOMAIN fbos \ finalized :
        /\ gl' = FrameBuffer_activate(Entry, fbos[i])
        /\ last' = Called("FrameBuffer", "activate", i, <<>>, Return)
        /\ UNCHANGED <<vbos, textures, fbos, names, deleted, finalized, released, dummies>>

DeactivateFrameBuffer ==
    \E i \in DOMAIN fbos \ finalized :
        /\ gl' = FrameBuffer_deactivate(Entry, fbos[i])
        /\ last' = Called("FrameBuffer", "deactivate", i, <<>>, Return)
        /\ UNCHANGED <<vbos, textures, fbos, names, deleted, finalized, released, dummies>>

AttachTexture ==
    \E i \in DOMAIN fbos \ finalized, t \in DOMAIN textures :
        /\ gl' = FrameBuffer_attach_texture(Entry, fbos[i], textures[t])
        /\ last' = Called("FrameBuffer", "attach_texture", i, <<t>>, Return)
        /\ UNCHANGED <<vbos, textures, fbos, names, deleted, finalized, released, dummies>>

\* The release commands for the handle of self among the commands of a call.
Releases(c, self) ==
    Len(SelectSeq(c.calls, LAMBDA k : /\ k.cmd = "glDeleteFramebuffersEXT"
                                      /\ k.args.n = self._id))

DeleteFrameBuffer ==
    \E i \in DOMAIN fbos \ finalized :
        /\ LET r == FrameBuffer_delete(Entry, fbos[i])
           IN  /\ gl' = r.gl
               /\ last' = Called("FrameBuffer", "delete", i, <<>>, r.end)
               /\ released' = [released EXCEPT ![i] = @ + Releases(r.gl, fbos[i])]
        /\ deleted' = deleted \cup {<<"FrameBuffer", i>>}
        /\ UNCHANGED <<vbos, textures, fbos, names, finalized, dummies>>

\* __del__ is delete(), run by the interpreter when the program drops its last
\* reference to the object; the object cannot be used after it.  What delete
\* raises inside __del__ is reported and goes no further.
FrameBuffer_del(c, self) == FrameBuffer_delete(c, self)

FinalizeFrameBuffer ==
    \E i \in DOMAIN fbos \ finalized :
        /\ LET r == FrameBuffer_del(Entry, fbos[i])
           IN  /\ gl' = r.gl
               /\ last' = Called("FrameBuffer", "__del__", i, <<>>, r.end)
               /\ released' = [released EXCEPT ![i] = @ + Releases(r.gl, fbos[i])]
        /\ finalized' = finalized \cup {i}
        /\ UNCHANGED <<vbos, textures, fbos, names, deleted, dummies>>

\* Textures, their images and their lifetime.
TextureNext ==
    \/ NewTexture
    \/ SetTextureData
    \/ ActivateTexture
    \/ DeactivateTexture
    \/ DeleteTexture

\* Framebuffers and the textures attached to them.
FrameBufferNext ==
    \/ NewTexture
    \/ NewFrameBuffer
    \/ ActivateFrameBuffer
    \/ DeactivateFrameBuffer
    \/ AttachTexture
    \/ DeleteTexture
    \/ DeleteFrameBuffer

\* Framebuffers from construction to the end of their lifetime.
LifetimeNext ==
    \/ NewFrameBuffer
    \/ ActivateFrameBuffer
    \/ DeactivateFrameBuffer
    \/ DeleteFrameBuffer
    \/ FinalizeFrameBuffer

\* A program that uses the three classes together.
Room(objects) ==
    /\ Len(objects) < MaxOfClass
    /\ Len(vbos) + Len(textures) + Len(fbos) < MaxObjects

MixedNext ==
    \/ Room(vbos) /\ NewVertexBuffer
    \/ Room(textures) /\ NewTexture
    \/ Room(fbos) /\ NewFrameBuffer
    \/ SetBufferData
    \/ ActivateBuffer
    \/ DeactivateBuffer
    \/ DrawBuffer
    \/ SetTextureData
    \/ ActivateTexture
    \/ DeactivateTexture
    \/ ActivateFrameBuffer
    \/ DeactivateFrameBuffer
    \/ AttachTexture

Init ==
    /\ gl = InitContext
    /\ vbos = <<>>
    /\ textures = <<>>
    /\ fbos = <<>>
    /\ dummies = 0
    /\ names = ModuleGlobals
    /\ last = [cls |-> "", op |-> "", obj |-> 0, args |-> <<>>, raised |-> "",
               msg |-> <<>>]
    /\ deleted = {}
    /\ finalized = {}
    /\ released = [i \in 1..NumFrameBuffers |-> 0]

\* The module as it is imported, and the module in a program that has bound
\* the two names FrameBuffer.__init__ looks up and the module does not bind.
InitAnyNames ==
    /\ gl = InitContext
    /\ vbos = <<>>
    /\ textures = <<>>
    /\ fbos = <<>>
    /\ dummies = 0
    /\ names \in {ModuleGlobals, ModuleGlobals \cup {"Gluint", "pointer"}}
    /\ last = [cls |-> "", op |-> "", obj |-> 0, args |-> <<>>, raised |-> "",
               msg |-> <<>>]
    /\ deleted = {}
    /\ finalized = {}
    /\ released = [i \in 1..NumFrameBuffers |-> 0]

BufferSpec == Init /\ [][BufferNext]_vars
TextureSpec == Init /\ [][TextureNext]_vars
FrameBufferSpec == InitAnyNames /\ [][FrameBufferNext]_vars
DrawSpec == Init /\ [][DrawNext]_vars
LifetimeSpec == InitAnyNames /\ [][LifetimeNext]_vars
MixedSpec == InitAnyNames /\ [][MixedNext]_vars
DummySpec == Init /\ [][DummyNext]_vars

(***************************************************************************)
(* Properties.                                                             *)
(***************************************************************************)
LastCall(cls, op) == last.cls = cls /\ last.op = op
Returned == last.raised = ""

\* The commands of the last call that are cmd, in the order issued.
CallsOf(cmd) == SelectSeq(gl.calls, LAMBDA k : k.cmd = cmd)

\* The last call was draw(mode) on a buffer of this kind with a mode of the
\* five.
DrewWith(kind) ==
    /\ LastCall("VertexBuffer", "draw")
    /\ vbos[last.obj].buffer_type = kind
    /\ last.args[1] \in DOMAIN _mode_map

\* C3: draw(mode) on a vertex-data buffer, with any host-data and any of the
\* five modes, fails with the invalid-operation error (the ValueError
\* "cannot draw a data buffer.") and issues no indexed-draw command.
C3_DrawOnDataBufferFails ==
    DrewWith("data") =>
        /\ last.raised = "ValueError"
        /\ CallsOf("glDrawElements") = <<>>

C3_Witness ==
    /\ DrewWith("data")
    /\ ~IsNone(vbos[last.obj]._data)
    /\ last.args[1] = "TRIANGLES"

\* C4: draw(mode) on an index-data buffer whose host-data has N elements,
\* with any of the five modes, issues exactly one indexed-draw command, with
\* count N, the buffer's element type and the given mode, and issues it
\* while the element slot holds the buffer's handle.
C4_DrawIssuesOneIndexedDraw ==
    (DrewWith("elem") /\ ~IsNone(vbos[last.obj]._data)) =>
        LET self == vbos[last.obj]
            d    == CallsOf("glDrawElements")
        IN  /\ Len(d) = 1
            /\ d[1].args.count = Len(Get(self._data))
            /\ d[1].args.type = _dtype_map[self.data_type].const
            /\ d[1].args.mode = _mode_map[last.args[1]]
            /\ d[1].on = self._id

\* draw on an index buffer of one element while the other buffer was bound
\* to the element slot.
C4_Witness ==
    /\ DrewWith("elem")
    /\ ~IsNone(vbos[last.obj]._data)
    /\ Len(Get(vbos[last.obj]._data)) = 1
    /\ gl.calls[1].on \notin {0, vbos[last.obj]._id}
    /\ last.args[1] = "LINE_LOOP"

\* C5: after a draw(mode) that returned, the element slot holds 0, whatever
\* it held before the call.
C5_DrawLeavesElementSlotClear ==
    (LastCall("VertexBuffer", "draw") /\ Returned) =>
        gl.bound["GL_ELEMENT_ARRAY_BUFFER"] = 0

\* a draw that returned, made while the element slot held a buffer.
C5_Witness ==
    /\ LastCall("VertexBuffer", "draw")
    /\ Returned
    /\ gl.calls[1].on # 0

\* The last call uploaded to a buffer: the data setter, or the constructor
\* given initial data.
Uploaded ==
    \/ LastCall("VertexBuffer", "data")
    \/ LastCall("VertexBuffer", "__init__") /\ ~IsNone(last.args[2])

\* C6: reading B.data gives the argument of the last set-data (the
\* constructor's initial data counts as one), and None until the first one:
\* a new buffer's data is the constructor's data argument, the setter leaves
\* its argument as the buffer's data, and no other call changes it.
C6_DataReadsBackLastWrite ==
    [][/\ \A i \in DOMAIN vbos' :
              IF i \notin DOMAIN vbos
              THEN /\ LastCall("VertexBuffer", "__init__")'
                   /\ vbos'[i]._data = last'.args[2]
              ELSE vbos'[i]._data # vbos[i]._data =>
                       /\ LastCall("VertexBuffer", "data")'
                       /\ last'.obj = i
       /\ LastCall("VertexBuffer", "data")' =>
              vbos'[last'.obj]._data = Some(last'.args[1])
      ]_vars

\* set-data on one buffer while the other buffer has had none.
C6_Witness ==
    /\ LastCall("VertexBuffer", "data")
    /\ last.args[1] = <<16777217>>
    /\ Len(vbos) = 2
    /\ IsNone(vbos[3 - last.obj]._data)

\* C7: set-data issues its upload while the slot of the buffer's kind holds
\* exactly the buffer's handle, so the store written is that handle's, and
\* the slot holds 0 when set-data returns.
C7_UploadTargetsOwnHandle ==
    Uploaded =>
        LET self == vbos[last.obj]
            u    == CallsOf("glBufferData")
        IN  /\ Len(u) = 1
            /\ u[1].target = self._type
            /\ u[1].on = self._id
            /\ gl.store[self._id] = u[1].args.data
            /\ gl.bound[self._type] = 0

\* set-data made while another buffer of the same kind was bound.
C7_Witness ==
    /\ LastCall("VertexBuffer", "data")
    /\ gl.calls[1].on \notin {0, vbos[last.obj]._id}
    /\ Len(last.args[1]) = 1

\* delete() has not been called on the i-th buffer.
LiveBuffer(i) == <<"VertexBuffer", i>> \notin deleted

\* The device store holds the same numbers as the host sequence.
SameNumbers(host, device) ==
    /\ Len(host) = Len(device)
    /\ \A k \in 1..Len(host) : SameNumber(host[k], device[k])

\* C8: between calls, for every live buffer whose host-data is present, the
\* host-data equals the device-side contents stored under the buffer's
\* handle.
C8_HostEqualsDevice ==
    \A i \in DOMAIN vbos :
        (LiveBuffer(i) /\ ~IsNone(vbos[i]._data)) =>
            SameNumbers(Get(vbos[i]._data), gl.store[vbos[i]._id])

\* The same with the element-type conversion taken into account: the device
\* store is the typed copy of the host-data.  It does not hold either: a
\* buffer that was deleted can still upload, and writes the store of the
\* live buffer that was handed the released name.
DeviceIsTypedHost ==
    \A i \in DOMAIN vbos :
        (LiveBuffer(i) /\ ~IsNone(vbos[i]._data)) =>
            gl.store[vbos[i]._id] = TypedArray(vbos[i]._dtype, Get(vbos[i]._data))

\* The bind-slot of the kind of the object the last call was made on.
SlotOfLast ==
    IF last.cls = "VertexBuffer" THEN vbos[last.obj]._type
    ELSE IF last.cls = "Texture" THEN "GL_TEXTURE_2D"
    ELSE "GL_FRAMEBUFFER_EXT"

\* C1: for a buffer of either kind, a texture and a framebuffer, and from any
\* state of the bind-slots, after deactivate() returns the slot of the
\* resource's kind holds 0, not the resource's own handle.
C1_DeactivateClearsSlot ==
    (last.op = "deactivate" /\ Returned) => gl.bound[SlotOfLast] = 0

\* C2: constructing a framebuffer returns a framebuffer holding a freshly
\* allocated handle whenever the status query answers "complete"; with any
\* other answer it raises the error that carries the status code and returns
\* no object.
C2_ConstructionFollowsStatus ==
    LastCall("FrameBuffer", "__init__") =>
        IF last.args[1] = "GL_FRAMEBUFFER_COMPLETE_EXT"
        THEN /\ Returned
             /\ last.obj = Len(fbos)
             /\ last.obj >= 1
             /\ LET g == CallsOf("glGenFramebuffersEXT")
                IN  /\ Len(g) = 1
                    /\ g[1].args.n = fbos[last.obj]._id
                    /\ \A j \in DOMAIN fbos :
                           j # last.obj => fbos[j]._id # fbos[last.obj]._id
        ELSE /\ last.raised = "Exception"
             /\ \E k \in DOMAIN last.msg : last.msg[k] = last.args[1]
             /\ last.obj = 0

ClampLinear ==
    [GL_TEXTURE_WRAP_S     |-> "GL_CLAMP_TO_EDGE",
     GL_TEXTURE_WRAP_T     |-> "GL_CLAMP_TO_EDGE",
     GL_TEXTURE_MIN_FILTER |-> "GL_LINEAR",
     GL_TEXTURE_MAG_FILTER |-> "GL_LINEAR"]

\* C9: after T.set-data(P) the sampling parameters of T's handle are
\* clamp-to-edge, clamp-to-edge, linear, linear; the image upload and the
\* four parameters are applied while the texture slot holds T's handle, the
\* image under T's handle is P at T's size, and the texture slot holds 0 when
\* set-data returns.
C9_SetDataResetsSampling ==
    LastCall("Texture", "data") =>
        LET self == textures[last.obj]
            u    == CallsOf("glTexImage2D")
            p    == CallsOf("glTexParameteri")
        IN  /\ Returned
            /\ gl.params[self._id] = ClampLinear
            /\ Len(u) = 1 /\ u[1].on = self._id
            /\ Len(p) = 4 /\ \A k \in 1..4 : p[k].on = self._id
            /\ ~IsNone(gl.image[self._id])
            /\ Get(gl.image[self._id]).pixels = last.args[1]
            /\ Get(gl.image[self._id]).width = self.width
            /\ Get(gl.image[self._id]).height = self.height
            /\ gl.bound["GL_TEXTURE_2D"] = 0

\* set-data on a texture while the other texture was bound.
C9_Witness ==
    /\ LastCall("Texture", "data")
    /\ gl.calls[1].on \notin {0, textures[last.obj]._id}
    /\ last.args[1] = "P2"

\* C10: after F.attach-texture(T) the colour attachment 0 of F's handle is
\* T's handle and nothing else, whatever was attached before and whichever
\* framebuffer was bound before (the attachment command is issued on F's
\* handle); and in every state every framebuffer has at most one colour
\* attachment.
C10_AttachReplaces ==
    /\ LastCall("FrameBuffer", "attach_texture") =>
           LET self == fbos[last.obj]
               a    == CallsOf("glFramebufferTexture2DEXT")
           IN  /\ Len(a) = 1 /\ a[1].on = self._id
               /\ gl.attachments[self._id] =
                      {<<"GL_COLOR_ATTACHMENT0_EXT", textures[last.args[1]]._id>>}
    /\ \A n \in Names0 : Cardinality(gl.attachments[n]) <= 1

\* attach-texture of the second texture on one framebuffer, made while the
\* other framebuffer was bound and held the first texture.
C10_Witness ==
    /\ LastCall("FrameBuffer", "attach_texture")
    /\ Len(fbos) = 2 /\ Len(textures) = 2
    /\ textures[1]._id # textures[2]._id
    /\ last.args[1] = 2
    /\ gl.calls[1].on = fbos[3 - last.obj]._id
    /\ gl.attachments[fbos[3 - last.obj]._id] =
           {<<"GL_COLOR_ATTACHMENT0_EXT", textures[1]._id>>}

\* C11: after F.attach-texture(T) returns, the framebuffer slot holds 0 (the
\* default render target): attach-texture does not leave F bound.
C11_AttachLeavesDefaultTarget ==
    (LastCall("FrameBuffer", "attach_texture") /\ Returned) =>
        gl.bound["GL_FRAMEBUFFER_EXT"] = 0

\* C12: for every framebuffer whose owning scope has ended, the release
\* command for its handle has been issued exactly once, whether or not
\* delete() was called explicitly before the scope ended.
C12_ReleasedExactlyOnce ==
    \A i \in finalized : released[i] = 1

\* C13: for a buffer, a texture and a framebuffer, every operation called on
\* the object after delete() has been called on it (activate, deactivate,
\* set-data, draw, attach-texture, a second delete) ends in an error; none
\* goes through.
C13_UseAfterDeleteFails ==
    [][(<<last'.cls, last'.obj>> \in deleted) => last'.raised # ""]_vars

\* C14: from any state of the array slot and the element slot, after the
\* static deactivate-all() returns both slots hold 0.
C14_DeactivateAllClearsBoth ==
    LastCall("VertexBuffer", "deactivate_all") =>
        /\ Returned
        /\ gl.bound["GL_ARRAY_BUFFER"] = 0
        /\ gl.bound["GL_ELEMENT_ARRAY_BUFFER"] = 0

\* deactivate-all() called while both slots held a buffer.
C14_Witness ==
    /\ LastCall("VertexBuffer", "deactivate_all")
    /\ gl.calls[1].target = "GL_ARRAY_BUFFER" /\ gl.calls[1].on # 0
    /\ gl.calls[2].target = "GL_ELEMENT_ARRAY_BUFFER" /\ gl.calls[2].on # 0

\* The handle of the object the last call was made on.
HandleOfLast ==
    IF last.cls = "VertexBuffer" THEN vbos[last.obj]._id
    ELSE IF last.cls = "Texture" THEN textures[last.obj]._id
    ELSE fbos[last.obj]._id

\* C15: activate() is idempotent for a buffer, a texture and a framebuffer:
\* after activate() the slot of the resource's kind holds the resource's
\* handle, and a second activate() right after the first on the same resource
\* leaves the whole state of the context, every bind-slot included, as the
\* first left it.
C15_ActivateIdempotent ==
    [][last'.op = "activate" =>
          /\ last'.raised = ""
          /\ gl'.bound[SlotOfLast'] = HandleOfLast'
          /\ (last.op = "activate" /\ last.cls = last'.cls /\ last.obj = last'.obj)
                 => [gl' EXCEPT !.calls = <<>>] = [gl EXCEPT !.calls = <<>>]]_vars

\* activate() on a buffer that its own slot already holds, while a texture or
\* a framebuffer is bound too.
C15_Witness ==
    /\ LastCall("VertexBuffer", "activate")
    /\ gl.calls[1].on = vbos[last.obj]._id
    /\ \E t \in {"GL_TEXTURE_2D", "GL_FRAMEBUFFER_EXT"} : gl.bound[t] # 0

\* C16: every operation of a DummyFrameBuffer (construct, activate,
\* deactivate, attach-texture, delete), with any arguments, in any order and
\* number, returns without error, issues no command and leaves the whole
\* state of the graphics context as it was: bind-slots, attachments, names in
\* use.
C16_DummyChangesNothing ==
    [][last'.cls = "DummyFrameBuffer" =>
          /\ last'.raised = ""
          /\ gl' = [gl EXCEPT !.calls = <<>>]]_vars

\* attach-texture of a bound texture to a DummyFrameBuffer that delete() was
\* called on before.
C16_Witness ==
    /\ LastCall("DummyFrameBuffer", "attach_texture")
    /\ <<"DummyFrameBuffer", last.obj>> \in deleted
    /\ Len(last.args) = 1
    /\ gl.bound["GL_TEXTURE_2D"] = textures[last.args[1]]._id

\* C17: a draw call that fails, on a vertex-data buffer or on an index buffer
\* whose host-data is absent, leaves every bind-slot holding what it held
\* before the call.
C17_FailedDrawRestoresSlots ==
    [][(DrewWith("data") \/ DrewWith("elem"))' /\ last'.raised # ""
          => gl'.bound = gl.bound]_vars

C19_UnknownModeTouchesNothing ==
    [][(last'.op = "draw" /\ last'.args[1] \notin DOMAIN _mode_map)
          => /\ last'.raised = "KeyError"
             /\ gl' = [gl EXCEPT !.calls = <<>>]
             /\ vbos' = vbos]_vars

\* draw with a mode outside the table on an index buffer with host-data, while
\* each of the two buffer slots holds a buffer.
C19_Witness ==
    /\ LastCall("VertexBuffer", "draw")
    /\ last.args[1] \notin DOMAIN _mode_map
    /\ vbos[last.obj].buffer_type = "elem"
    /\ ~IsNone(vbos[last.obj]._data)
    /\ gl.bound["GL_ARRAY_BUFFER"] # 0
    /\ gl.bound["GL_ELEMENT_ARRAY_BUFFER"] # 0
====
